---- MODULE Spec2Model ----
(***************************************************************************)
(* A model of the Twitter crawler of crawler/crawler.py and of its         *)
(* command-line presenter crawler/main.py.                                 *)
(*                                                                         *)
(* The program state is the Crawler object (its api handle), the User      *)
(* object a caller holds (user_id, the user record fetched at              *)
(* construction, the protected flag), the position of print_info and its   *)
(* local variable followers, and the text print_info has written.  The     *)
(* remote account is the environment: its record can change at any time.   *)
(* Every call of the public interface is one action; what the remote API   *)
(* answers (pages, failures) is drawn with \E.                              *)
(***************************************************************************)
EXTENDS Integers, Sequences, FiniteSets, TLC

(***************************************************************************)
(* Bounds of the model.                                                    *)
(***************************************************************************)
MaxItems == 3        \* most items a paginated remote source holds
MaxLimit == 3        \* explicit limits run over 0..MaxLimit
MaxArgs == 2         \* most extra field names given to get_profile_info

\* def get_followers(self, limit=100) and its two siblings
DefaultLimit == 100

VARIABLES
    api,            \* Crawler.api: "None" or "API"
    connectResult,  \* what the most recent connect() did: "never", "True", "False", "raised"
    remote,         \* the remote account: [protected, attrs]
    user,           \* the User object the caller holds, or NoUser
    call,           \* the call that has just returned or raised, and its outcome
    pc,             \* position of print_info: "idle", a section, or "done"
    followers,      \* print_info's local variable followers
    out             \* what print_info printed, section by section

vars == <<api, connectResult, remote, user, call, pc, followers, out>>

(***************************************************************************)
(* Python values.                                                          *)
(***************************************************************************)
None == [kind |-> "None", items |-> <<>>, exc |-> ""]
List(items) == [kind |-> "list", items |-> items, exc |-> ""]
Dict(pairs) == [kind |-> "dict", items |-> pairs, exc |-> ""]
Value(kind) == [kind |-> kind, items |-> <<>>, exc |-> ""]
Raise(exc) == [kind |-> "raise", items |-> <<>>, exc |-> exc]

\* Python truth value of a returned value, as `if not followers:` takes it
Truthy(v) ==
    CASE v.kind = "None" -> FALSE
      [] v.kind = "False" -> FALSE
      [] v.kind = "list" -> v.items # <<>>
      [] v.kind = "dict" -> v.items # <<>>
      [] OTHER -> TRUE

NoUser == [exists |-> FALSE]

(***************************************************************************)
(* The remote account.  A user record carries the six attributes the code  *)
(* reads and, optionally, status (the account has a visible latest tweet)  *)
(* and verified.  No record ever carries the attribute bogus.              *)
(***************************************************************************)
OptionalAttrs == {"status", "verified"}

UserRecord(protected, attrs) ==
    [a \in {"id", "screen_name", "name", "location", "followers_count",
            "protected"} \cup attrs |->
        CASE a = "id" -> "14749606"
          [] a = "screen_name" -> "acme"
          [] a = "name" -> "Acme"
          [] a = "location" -> "San Francisco, CA"
          [] a = "followers_count" -> "5"
          [] a = "protected" -> IF protected THEN "True" ELSE "False"
          [] a = "status" -> [text |-> "latest tweet"]
          [] a = "verified" -> "True"]

Remotes == [protected : BOOLEAN, attrs : SUBSET OptionalAttrs]

UserIds == {"acme", "ghost"}
Resolves(user_id) == user_id = "acme"

(***************************************************************************)
(* The record of one call: the operation, its arguments, what the remote   *)
(* served, the value returned or exception raised, and the requests and    *)
(* warnings the call issued; failed says that the remote failed one of the *)
(* call's page fetches.                                                    *)
(***************************************************************************)
NoCall ==
    [op |-> "none", user_id |-> "", limit |-> 0, args |-> <<>>, pages |-> <<>>,
     ret |-> Value("none"), fetches |-> 0, failed |-> FALSE, lookups |-> 0,
     warnings |-> 0, built |-> FALSE]

(***************************************************************************)
(* Crawler.connect: builds the handle, stores it in self.api and returns   *)
(* what verify_credentials returns: the account (true) when the remote     *)
(* accepts the credentials, False when it answers 401; any other failure   *)
(* is raised, with self.api already assigned.                              *)
(***************************************************************************)
ConnectAnswers == {"ok", "unauthorized", "error"}

connect(answer) ==
    [api |-> "API",
     ret |-> CASE answer = "ok" -> Value("True")
               [] answer = "unauthorized" -> Value("False")
               [] OTHER -> Raise("TweepError:transport")]

(***************************************************************************)
(* What api.get_user(user_id) can answer.  An identifier the remote does   *)
(* not know is never resolved, and a handle whose credentials the remote   *)
(* refused at connect() is refused again.                                  *)
(***************************************************************************)
LookupAnswers(user_id, connected) ==
    IF connected = "False" THEN {"unauthorized", "error"}
    ELSE IF Resolves(user_id) THEN {"ok", "error"}
    ELSE {"not_found", "error"}

(***************************************************************************)
(* User.__init__(user_id, api): one identity lookup through api; the       *)
(* record it returns and its protected flag are kept in the object.  With  *)
(* api = None the attribute access api.get_user raises AttributeError      *)
(* before any request.  An exception leaves no object behind.              *)
(***************************************************************************)
User_init_legacy(user_id, apiH, answer, rem) ==
    [ret |-> Value("User"), lookups |-> 0,
     obj |-> [exists |-> TRUE, user_id |-> user_id,
              user |-> UserRecord(rem.protected, rem.attrs), api |-> apiH,
              protected |-> rem.protected]]

User_init(user_id, apiH, answer, rem) ==
    IF apiH = "None"
    THEN [ret |-> Raise("AttributeError"), lookups |-> 0, obj |-> NoUser]
    ELSE IF answer # "ok"
    THEN [ret |-> Raise("TweepError:" \o answer), lookups |-> 1, obj |-> NoUser]
    ELSE LET record == UserRecord(rem.protected, rem.attrs)
         IN [ret |-> Value("User"), lookups |-> 1,
             obj |-> [exists |-> TRUE, user_id |-> user_id, user |-> record,
                      api |-> apiH,
                      protected |-> record["protected"] = "True"]]

\* Crawler.get_user(user_id): return User(user_id, self.api)
get_user(self_api, user_id, answer, rem) ==
    User_init(user_id, self_api, answer, rem)

(***************************************************************************)
(* OrderedDict: a sequence of <<key, value>> pairs with distinct keys.     *)
(* Assigning to a key that is present replaces its value in place;         *)
(* assigning to a new key appends it.                                      *)
(***************************************************************************)
Keys(d) == [i \in 1..Len(d) |-> d[i][1]]
HasKey(d, k) == \E i \in 1..Len(d) : d[i][1] = k
SetItem(d, k, v) ==
    IF HasKey(d, k)
    THEN [i \in 1..Len(d) |-> IF d[i][1] = k THEN <<k, v>> ELSE d[i]]
    ELSE Append(d, <<k, v>>)

\* hasattr(self.user, name)
hasattr(record, name) == name \in DOMAIN record

(***************************************************************************)
(* User.get_profile_info(self, *args).  The five default fields, then status     *)
(* from self.user.status.text when self.protected is false (which raises   *)
(* AttributeError when the record has no status), then the loop over args.*)
(***************************************************************************)
DefaultFields == <<"id", "screen_name", "name", "location", "followers_count">>

RECURSIVE SetDefaults(_, _, _)
SetDefaults(info, record, names) ==
    IF names = <<>> THEN info
    ELSE SetDefaults(SetItem(info, Head(names), record[Head(names)]), record,
                     Tail(names))

RECURSIVE AddRequested(_, _, _)
\* the loop without the hasattr test: getattr(self.user, name, None)
AddRequested_unchecked(acc, record, args) ==
    IF args = <<>> THEN acc
    ELSE AddRequested(
             [acc EXCEPT !.info =
                 SetItem(@, Head(args),
                         IF hasattr(record, Head(args)) THEN record[Head(args)]
                         ELSE "None")],
             record, Tail(args))

AddRequested(acc, record, args) ==
    IF args = <<>> THEN acc
    ELSE LET requested_info == Head(args)
         IN IF hasattr(record, requested_info)
            THEN AddRequested(
                     [acc EXCEPT !.info =
                         SetItem(@, requested_info, record[requested_info])],
                     record, Tail(args))
            ELSE AddRequested([acc EXCEPT !.warnings = @ + 1], record,
                              Tail(args))

\* status taken whether or not the account is protected
get_profile_info_always_status(self, args) ==
    LET defaults == SetDefaults(<<>>, self.user, DefaultFields)
    IN IF ~hasattr(self.user, "status")
       THEN [ret |-> Raise("AttributeError"), warnings |-> 0, lookups |-> 0]
       ELSE LET info == SetItem(defaults, "status", self.user["status"].text)
                r == AddRequested([info |-> info, warnings |-> 0], self.user, args)
            IN [ret |-> Dict(r.info), warnings |-> r.warnings, lookups |-> 0]

\* the record fetched again at every call: user = self.api.get_user(self.user_id)
get_profile_info_refetch(self, args) ==
    LET fresh == UserRecord(remote.protected, remote.attrs)
        defaults == SetDefaults(<<>>, fresh, DefaultFields)
    IN IF ~remote.protected /\ ~hasattr(fresh, "status")
       THEN [ret |-> Raise("AttributeError"), warnings |-> 0, lookups |-> 1]
       ELSE LET info == IF ~remote.protected
                        THEN SetItem(defaults, "status", fresh["status"].text)
                        ELSE defaults
                r == AddRequested([info |-> info, warnings |-> 0], fresh, args)
            IN [ret |-> Dict(r.info), warnings |-> r.warnings, lookups |-> 1]

get_profile_info(self, args) ==
    LET defaults == SetDefaults(<<>>, self.user, DefaultFields)
    IN IF ~self.protected /\ ~hasattr(self.user, "status")
       THEN [ret |-> Raise("AttributeError"), warnings |-> 0, lookups |-> 0]
       ELSE LET info == IF ~self.protected
                        THEN SetItem(defaults, "status", self.user["status"].text)
                        ELSE defaults
                r == AddRequested([info |-> info, warnings |-> 0], self.user, args)
            IN [ret |-> Dict(r.info), warnings |-> r.warnings, lookups |-> 0]

(***************************************************************************)
(* Paginated remote sources.  A source holds N <= MaxItems items, served   *)
(* in a fixed order that is not the sorted one, cut into non-empty pages   *)
(* in every possible way.  Followers and followees are user objects        *)
(* carrying screen_name; tweets are status objects carrying text.          *)
(***************************************************************************)
SourceItems(n) == [i \in 1..n |-> IF i % 2 = 1 THEN i + 1 ELSE i - 1]

RECURSIVE Compositions(_)
Compositions(n) ==
    IF n = 0 THEN {<<>>}
    ELSE UNION {{<<k>> \o c : c \in Compositions(n - k)} : k \in 1..n}

RECURSIVE Slice(_, _)
Slice(items, sizes) ==
    IF sizes = <<>> THEN <<>>
    ELSE <<SubSeq(items, 1, Head(sizes))>>
         \o Slice(SubSeq(items, Head(sizes) + 1, Len(items)), Tail(sizes))

Object(field, n) == [f \in {field} |-> n]

Sources(field) ==
    UNION {{Slice([i \in 1..n |-> Object(field, SourceItems(n)[i])], c) :
                c \in Compositions(n)} : n \in 0..MaxItems}

RECURSIVE Flatten(_)
Flatten(pages) ==
    IF pages = <<>> THEN <<>> ELSE Head(pages) \o Flatten(Tail(pages))

Limits == 0..MaxLimit \cup {DefaultLimit}
\* which page fetch fails, counted from 1; 0 is no failure
Failures == 0..(MaxItems + 1)

(***************************************************************************)
(* tweepy.Cursor(method, id=...).items(limit=limit), as the three          *)
(* accessors iterate it.  The item iterator stops when limit > 0 and limit *)
(* items were handed out (a limit of 0 is "no limit"); when the page in    *)
(* hand is used up it asks the page iterator for the next page.  A cursor  *)
(* paginated method (followers, friends) ends when the last answer carried *)
(* next_cursor = 0 or a page is empty; an id paginated method              *)
(* (user_timeline) ends at the first empty page.  A failed page fetch      *)
(* raises out of the loop.                                                 *)
(***************************************************************************)
FetchPage(pages, k) == IF k <= Len(pages) THEN pages[k] ELSE <<>>

RECURSIVE items(_, _, _, _, _, _, _)
items(mode, pages, limit, failAt, acc, fetched, rest) ==
    IF limit > 0 /\ Len(acc) = limit
    THEN [failed |-> FALSE, items |-> acc, fetches |-> fetched]
    ELSE IF rest # <<>>
    THEN items(mode, pages, limit, failAt, Append(acc, Head(rest)), fetched,
               Tail(rest))
    ELSE IF mode = "cursor" /\ fetched > 0 /\ fetched >= Len(pages)
    THEN [failed |-> FALSE, items |-> acc, fetches |-> fetched]
    ELSE IF failAt = fetched + 1
    THEN [failed |-> TRUE, items |-> acc, fetches |-> fetched + 1]
    ELSE LET data == FetchPage(pages, fetched + 1)
         IN IF data = <<>>
            THEN [failed |-> FALSE, items |-> acc, fetches |-> fetched + 1]
            ELSE items(mode, pages, limit, failAt, acc, fetched + 1, data)

(***************************************************************************)
(* The loop the three accessors share:                                     *)
(*     result = []                                                         *)
(*     for x in cursor.items(limit=limit): result.append(x.<field>)        *)
(*     return result                                                       *)
(* An exception raised by the iterator leaves the function; the list       *)
(* gathered so far is a local and is lost.                                 *)
(***************************************************************************)
collect_partial(mode, field, pages, limit, failAt) ==
    LET r == items(mode, pages, limit, failAt, <<>>, 0, <<>>)
    IN [ret |-> List([i \in 1..Len(r.items) |-> r.items[i][field]]),
        fetches |-> r.fetches, failed |-> r.failed]

collect(mode, field, pages, limit, failAt) ==
    LET r == items(mode, pages, limit, failAt, <<>>, 0, <<>>)
    IN IF r.failed
       THEN [ret |-> Raise("TweepError:error"), fetches |-> r.fetches,
             failed |-> TRUE]
       ELSE [ret |-> List([i \in 1..Len(r.items) |-> r.items[i][field]]),
             fetches |-> r.fetches, failed |-> FALSE]

get_followers_ungated(self, pages, limit, failAt) ==
    collect("cursor", "screen_name", pages, limit, failAt)

get_followers(self, pages, limit, failAt) ==
    IF self.protected THEN [ret |-> None, fetches |-> 0, failed |-> FALSE]
    ELSE collect("cursor", "screen_name", pages, limit, failAt)

get_followees(self, pages, limit, failAt) ==
    IF self.protected THEN [ret |-> None, fetches |-> 0, failed |-> FALSE]
    ELSE collect("cursor", "screen_name", pages, limit, failAt)

get_tweets(self, pages, limit, failAt) ==
    IF self.protected THEN [ret |-> None, fetches |-> 0, failed |-> FALSE]
    ELSE collect("id", "text", pages, limit, failAt)

(***************************************************************************)
(* The calls a client of the module makes, one action each.                *)
(***************************************************************************)
ArgNames == {"verified", "bogus", "name", "status"}
ArgLists == UNION {[1..n -> ArgNames] : n \in 0..MaxArgs}

\* the caller is between two calls
Quiet == pc = "idle" /\ call.op = "none"

Init ==
    /\ api = "None"
    /\ connectResult = "never"
    /\ remote \in Remotes
    /\ user = NoUser
    /\ call = NoCall
    /\ Quiet
    /\ followers = Value("unset")
    /\ out = <<>>

\* crawler.connect()
Connect ==
    /\ Quiet
    /\ \E answer \in ConnectAnswers :
        LET r == connect(answer)
        IN /\ api' = r.api
           /\ connectResult' = IF r.ret.kind = "raise" THEN "raised" ELSE r.ret.kind
           /\ call' = [NoCall EXCEPT !.op = "connect", !.ret = r.ret]
    /\ UNCHANGED <<remote, user, pc, followers, out>>

\* user = crawler.get_user(user_id); an exception leaves user as it was
GetUser ==
    /\ Quiet
    /\ \E user_id \in UserIds :
       \E answer \in LookupAnswers(user_id, connectResult) :
        LET r == get_user(api, user_id, answer, remote)
        IN /\ user' = IF r.ret.kind = "User" THEN r.obj ELSE user
           /\ call' = [NoCall EXCEPT !.op = "get_user", !.user_id = user_id,
                                     !.ret = r.ret, !.lookups = r.lookups,
                                     !.built = (r.ret.kind = "User")]
    /\ UNCHANGED <<api, connectResult, remote, pc, followers, out>>

\* user.get_profile_info(args...)
GetProfileInfo ==
    /\ Quiet
    /\ user.exists
    /\ \E args \in ArgLists :
        LET r == get_profile_info(user, args)
        IN call' = [NoCall EXCEPT !.op = "get_profile_info", !.args = args,
                                  !.ret = r.ret, !.warnings = r.warnings,
                                  !.lookups = r.lookups]
    /\ UNCHANGED <<api, connectResult, remote, user, pc,
                   followers, out>>

\* user.get_followers(limit)
GetFollowers ==
    /\ Quiet
    /\ user.exists
    /\ \E pages \in Sources("screen_name"), limit \in Limits, failAt \in Failures :
        LET r == get_followers(user, pages, limit, failAt)
        IN call' = [NoCall EXCEPT !.op = "get_followers", !.limit = limit,
                                  !.pages = pages, !.ret = r.ret,
                                  !.fetches = r.fetches, !.failed = r.failed]
    /\ UNCHANGED <<api, connectResult, remote, user, pc,
                   followers, out>>

\* user.get_followees(limit)
GetFollowees ==
    /\ Quiet
    /\ user.exists
    /\ \E pages \in Sources("screen_name"), limit \in Limits, failAt \in Failures :
        LET r == get_followees(user, pages, limit, failAt)
        IN call' = [NoCall EXCEPT !.op = "get_followees", !.limit = limit,
                                  !.pages = pages, !.ret = r.ret,
                                  !.fetches = r.fetches, !.failed = r.failed]
    /\ UNCHANGED <<api, connectResult, remote, user, pc,
                   followers, out>>

\* user.get_tweets(limit)
GetTweets ==
    /\ Quiet
    /\ user.exists
    /\ \E pages \in Sources("text"), limit \in Limits, failAt \in Failures :
        LET r == get_tweets(user, pages, limit, failAt)
        IN call' = [NoCall EXCEPT !.op = "get_tweets", !.limit = limit,
                                  !.pages = pages, !.ret = r.ret,
                                  !.fetches = r.fetches, !.failed = r.failed]
    /\ UNCHANGED <<api, connectResult, remote, user, pc,
                   followers, out>>

\* the remote account changes: it is protected or opened, posts its first
\* tweet, gains or loses the verified mark
RemoteChange ==
    /\ \E r \in Remotes \ {remote} : remote' = r
    /\ UNCHANGED <<api, connectResult, user, call, pc, followers,
                   out>>

(***************************************************************************)
(* print_info(user), one step per section.  Each section's condition and   *)
(* loop are those of main.py; an exception raised by an accessor ends      *)
(* print_info with what was printed so far.                                *)
(***************************************************************************)
Section(name, got, private, lines) ==
    [section |-> name, got |-> got, private |-> private, lines |-> lines]

\* info = user.get_profile_info(); the header and the key: value lines
PrintProfile ==
    /\ Quiet
    /\ user.exists
    /\ LET r == get_profile_info(user, <<>>)
       IN /\ call' = [NoCall EXCEPT !.op = "print_info", !.ret = r.ret,
                                     !.lookups = r.lookups]
          /\ IF r.ret.kind = "raise"
             THEN /\ out' = <<>>
                  /\ pc' = "done"
             ELSE /\ out' = <<Section("profile", r.ret, FALSE, Keys(r.ret.items))>>
                  /\ pc' = "followers"
    /\ followers' = Value("unset")
    /\ UNCHANGED <<api, connectResult, remote, user>>

\* followers = user.get_followers(); if not followers: ... else: ...
PrintFollowers ==
    /\ pc = "followers"
    /\ \E pages \in Sources("screen_name"), failAt \in Failures :
        LET r == get_followers(user, pages, DefaultLimit, failAt)
        IN IF r.ret.kind = "raise"
           THEN /\ pc' = "done"
                /\ call' = [call EXCEPT !.ret = r.ret]
                /\ followers' = Value("unset")
                /\ UNCHANGED out
           ELSE /\ followers' = r.ret
                /\ out' = Append(out,
                        IF ~Truthy(r.ret)
                        THEN Section("followers", r.ret, TRUE, <<>>)
                        ELSE Section("followers", r.ret, FALSE, r.ret.items))
                /\ pc' = "followees"
                /\ UNCHANGED call
    /\ UNCHANGED <<api, connectResult, remote, user>>

\* followees = user.get_followees(); if not followees: ... else: ...
PrintFollowees ==
    /\ pc = "followees"
    /\ \E pages \in Sources("screen_name"), failAt \in Failures :
        LET r == get_followees(user, pages, DefaultLimit, failAt)
        IN IF r.ret.kind = "raise"
           THEN /\ pc' = "done"
                /\ call' = [call EXCEPT !.ret = r.ret]
                /\ followers' = Value("unset")
                /\ UNCHANGED out
           ELSE /\ out' = Append(out,
                        IF ~Truthy(r.ret)
                        THEN Section("followees", r.ret, TRUE, <<>>)
                        ELSE Section("followees", r.ret, FALSE, r.ret.items))
                /\ pc' = "tweets"
                /\ UNCHANGED <<call, followers>>
    /\ UNCHANGED <<api, connectResult, remote, user>>

\* tweets = user.get_tweets(); if not followers: ... else: for tweet in tweets
PrintTweets ==
    /\ pc = "tweets"
    /\ \E pages \in Sources("text"), failAt \in Failures :
        LET r == get_tweets(user, pages, DefaultLimit, failAt)
        IN /\ pc' = "done"
           /\ followers' = Value("unset")
           /\ IF r.ret.kind = "raise"
              THEN /\ call' = [call EXCEPT !.ret = r.ret]
                   /\ UNCHANGED out
              ELSE IF ~Truthy(followers)
              THEN /\ out' = Append(out, Section("tweets", r.ret, TRUE, <<>>))
                   /\ UNCHANGED call
              ELSE IF r.ret.kind = "None"
              THEN /\ call' = [call EXCEPT !.ret = Raise("TypeError")]
                   /\ UNCHANGED out
              ELSE /\ out' = Append(out,
                                    Section("tweets", r.ret, FALSE, r.ret.items))
                   /\ UNCHANGED call
    /\ UNCHANGED <<api, connectResult, remote, user>>

\* the caller takes the outcome of the call and goes on to its next statement
Return ==
    /\ call.op # "none"
    /\ pc \in {"idle", "done"}
    /\ call' = NoCall
    /\ pc' = "idle"
    /\ out' = <<>>
    /\ UNCHANGED <<api, connectResult, remote, user, followers>>

Next ==
    \/ Connect
    \/ GetUser
    \/ GetProfileInfo
    \/ GetFollowers
    \/ GetFollowees
    \/ GetTweets
    \/ RemoteChange
    \/ PrintProfile
    \/ PrintFollowers
    \/ PrintFollowees
    \/ PrintTweets
    \/ Return

Spec == Init /\ [][Next]_vars

(***************************************************************************)
(* Vocabulary of the properties.                                           *)
(***************************************************************************)
Accessors == {"get_followers", "get_followees", "get_tweets"}
FieldOf(op) == IF op = "get_tweets" THEN "text" ELSE "screen_name"
Min(a, b) == IF a <= b THEN a ELSE b
Range(seq) == {seq[i] : i \in 1..Len(seq)}

\* what the source of the call holds, in the order the server returns it
Served(c) ==
    LET all == Flatten(c.pages)
    IN [i \in 1..Len(all) |-> all[i][FieldOf(c.op)]]

\* the number of leading pages that together hold at least n items
RECURSIVE PagesNeeded(_, _)
PagesNeeded(pages, n) ==
    IF n <= 0 \/ pages = <<>> THEN 0
    ELSE 1 + PagesNeeded(Tail(pages), n - Len(Head(pages)))

Collected(c) == c.op \in Accessors /\ user.exists /\ ~user.protected

\* C1: for every limit >= 0 and every source of N items, however it is cut
\* into pages, a collection on an unprotected profile returns exactly the
\* first min(limit, N) items in server order, and once limit items are
\* gathered no further page is fetched.
C1_CollectReturnsMinLimitN ==
    Collected(call) /\ call.ret.kind = "list" =>
        /\ call.ret.items =
               SubSeq(Served(call), 1, Min(call.limit, Len(Served(call))))
        /\ Len(Served(call)) >= call.limit =>
               call.fetches = PagesNeeded(call.pages, call.limit)

\* The same statement for limits of at least 1, where the code keeps it.
CollectWithPositiveLimit ==
    Collected(call) /\ call.ret.kind = "list" /\ call.limit >= 1 =>
        /\ call.ret.items =
               SubSeq(Served(call), 1, Min(call.limit, Len(Served(call))))
        /\ Len(Served(call)) >= call.limit =>
               call.fetches = PagesNeeded(call.pages, call.limit)

\* C2: an accessor returns None exactly when the profile is protected; a
\* protected profile fetches no page; an unprotected one returns a list (or
\* raises), and the list is empty, not None, when the source holds nothing.
C2_NoneIffProtected ==
    call.op \in Accessors =>
        /\ call.ret.kind = "None" <=> user.protected
        /\ user.protected => call.fetches = 0
        /\ ~user.protected => call.ret.kind \in {"list", "raise"}
        /\ ~user.protected /\ call.pages = <<>> /\ ~call.failed =>
               call.ret = List(<<>>)

C2_Witness ==
    /\ call.op \in Accessors
    /\ user.protected
    /\ call.ret = None
    /\ call.fetches = 0

C2_WitnessEmptySource ==
    /\ call.op \in Accessors
    /\ ~user.protected
    /\ call.pages = <<>>
    /\ call.ret = List(<<>>)

\* C3: a collection with limit = 0 on an unprotected profile returns the
\* empty sequence and fetches no page, whatever the source holds.
C3_LimitZeroFetchesNothing ==
    Collected(call) /\ call.limit = 0 =>
        /\ call.ret = List(<<>>)
        /\ call.fetches = 0

\* C4: get_user produces a profile only when the most recent connect()
\* succeeded; otherwise it fails, issues no identity lookup and constructs
\* no profile.
C4_GetUserNeedsConnect ==
    call.op = "get_user" /\ connectResult # "True" =>
        /\ call.ret.kind = "raise"
        /\ call.lookups = 0
        /\ ~call.built

\* C5: when a page fetch of a collection fails, on the first page or after
\* any number of successful ones, the accessor raises the transport error
\* and returns no sequence.
C5_FailedFetchRaises ==
    call.op \in Accessors /\ call.failed =>
        call.ret = Raise("TweepError:error")

C5_Witness ==
    /\ call.op \in Accessors
    /\ call.failed
    /\ call.fetches >= 2
    /\ call.ret.kind = "raise"

C6_WitnessPublic ==
    /\ call.op = "get_profile_info"
    /\ call.ret.kind = "dict"
    /\ ~user.protected
    /\ HasKey(call.ret.items, "status")

\* the keys every returned mapping starts with
DefaultKeys(self) ==
    DefaultFields \o (IF self.protected THEN <<>> ELSE <<"status">>)

Present(name) == hasattr(user.user, name)
Absent(name) == ~hasattr(user.user, name)

\* seq without the names of seen and without repeats, first occurrences kept
RECURSIVE FirstNew(_, _)
FirstNew(seq, seen) ==
    IF seq = <<>> THEN <<>>
    ELSE IF Head(seq) \in seen THEN FirstNew(Tail(seq), seen)
    ELSE <<Head(seq)>> \o FirstNew(Tail(seq), seen \cup {Head(seq)})

C8_PrivateIffNone ==
    \A i \in 1..Len(out) :
        out[i].section # "profile" =>
            /\ out[i].private <=> out[i].got.kind = "None"
            /\ out[i].got.kind = "list" => out[i].lines = out[i].got.items

Snapshot(self) ==
    [protected |-> self.protected, attrs |-> DOMAIN self.user \cap OptionalAttrs]

====
